---- MODULE Spec2Model ----
(***************************************************************************)
(* Model of app_single.py, the MyAddon entitlement server: the JSON store  *)
(* (db.json and its .bak sibling), the client endpoints /api/check and     *)
(* /api/activate/key, and the administrative form endpoints.               *)
(*                                                                         *)
(* Every handler is one action: load_db, the handler's decisions and       *)
(* mutations on its private copy, and the save_db (when the code reaches   *)
(* one).  Strings that the code inspects character by character (key       *)
(* codes) are sequences of one-character strings; identifiers are TLA+     *)
(* strings.  The "role" field of a user and the "admins" table are written *)
(* once and never read by any handler, and are left out.                   *)
(***************************************************************************)
EXTENDS Integers, Sequences, FiniteSets, TLC

VARIABLES
    dbFile,         \* db.json: <<>> when the file does not exist, else <<db>>
    bakFile,        \* db.json.bak: <<>> or <<db>>
    adminTokenEnv,  \* ADMIN_TOKEN of the environment: "" when unset
    now,            \* the clock, now_ts()
    ticks,          \* how many times the clock has advanced
    steps,          \* how many requests have been served
    pre,            \* history: dbFile as it was when the last request arrived
    preBak,         \* history: bakFile as it was when the last request arrived
    zeroSnap,       \* history: <<db>> loaded by a bulk_zero that was the last
                    \* mutation request, <<>> otherwise
    last,           \* history: the last request and its response
    granted,        \* history: the <<id, hwid>> that plain checks have granted since
                    \* the last request that was not a check
    fs,             \* the files of the store directory, byte level: names and inodes
    iot,            \* the threads that run store calls step by step
    thr,            \* the threads that run handlers as load, then decide and save
    base            \* history: db.json when the first concurrent handler loaded

vars == <<dbFile, bakFile, adminTokenEnv, now, ticks, steps, pre, preBak, zeroSnap, last,
          granted, fs, iot, thr, base>>

(* the variables of the step-by-step specifications *)
fineVars == <<fs, iot, thr, base>>

(* the variables of the one-action-per-handler specifications *)
coarseVars ==
    <<dbFile, bakFile, adminTokenEnv, now, ticks, steps, pre, preBak, zeroSnap, last, granted>>

----------------------------------------------------------------------------
(* Bounds of the model: the number of requests served in a behaviour (the  *)
(* deep bound is for the specifications with few operations) and the       *)
(* number of times the clock advances between them                         *)

MaxSteps == 3
MaxDeepSteps == 4
MaxAdminSteps == 2
MaxTicks == 1
MaxIoReqs == 3
MaxDecisionSteps == 6
MaxKeyReqs == 4

(* Program constants *)

ONLINE_WINDOW_SEC == 300
KeyGroupMin == 4
KeyGroupMax == 6
KeyExtraGroupsMax == 3
SecondsPerMinute == 60

(* The request inputs that are enumerated *)

Clock0 == {1000}
TickDeltas == {60, 301}
LongDelta == {301}
Ids == {"", "a", "b"}
AdminIds == {"a", "b"}
RawOldIds == {"a", "b", "b ", " "}
RawNewIds == {"a", "b ", " "}
Hwids == {"", "h1", "h2"}
NoHwid == {""}
OneHwid == {"h1"}
DefaultAdminToken == "202426933Ibrahim"
EnvTokens == {"envtok"}
Tokens == {"envtok", DefaultAdminToken}
OperatorTokens == {"envtok"}
DeviceInputs == {0, 2}
Confirms == {"ZERO", " zero ", "no"}
Whats == {"free", "lock", "other"}

(* amount and unit of a duration form *)
Durations ==
    {[amount |-> 1, unit |-> "m"], [amount |-> 1, unit |-> "H"], [amount |-> 1, unit |-> "x"]}

(* the fields of the key forms (create_keys, edit_key) *)
KeyForms ==
    {[amount |-> 1, unit |-> "m", devices |-> 0, unlimited |-> FALSE, single_use |-> TRUE],
     [amount |-> 1, unit |-> "H", devices |-> 2, unlimited |-> FALSE, single_use |-> FALSE],
     [amount |-> 1, unit |-> "x", devices |-> 2, unlimited |-> TRUE, single_use |-> TRUE],
     [amount |-> 1, unit |-> "x", devices |-> 0, unlimited |-> FALSE, single_use |-> TRUE],
     [amount |-> -1, unit |-> "m", devices |-> 0, unlimited |-> FALSE, single_use |-> FALSE]}

(* the fields of the direct activation form (activate_id) *)
UserForms ==
    {[amount |-> 1, unit |-> "m", devices |-> 0, unlimited |-> FALSE],
     [amount |-> 1, unit |-> "H", devices |-> 2, unlimited |-> FALSE],
     [amount |-> -1, unit |-> "x", devices |-> 2, unlimited |-> TRUE],
     [amount |-> 1, unit |-> "x", devices |-> 0, unlimited |-> FALSE]}

(* the forms of activate_id with a grant that moves the expiry below zero *)
AdjustForms ==
    {[amount |-> 1, unit |-> "m", devices |-> 1, unlimited |-> FALSE],
     [amount |-> -100, unit |-> "m", devices |-> 1, unlimited |-> FALSE],
     [amount |-> 1, unit |-> "m", devices |-> 1, unlimited |-> TRUE]}

K1 == <<"A", "A", "A", "1">>
K1lower == <<"a", "a", "a", "1">>
K2 == <<"B", "B", "B", "B", "-", "1", "1", "1", "1">>
KShort == <<"A", "A", "1">>
RandomCodes == {<<"0", "F", "0", "F", "-", "0", "F", "0", "F", "-", "0", "F", "0", "F", "-", "0", "F", "0", "F">>}
KeyInputs == {K1, K1lower, KShort}
EditKeyInputs == {K1lower, K2}
Batches == {<<>>, <<K1lower>>, <<K1, KShort, K2>>}
OneCodeBatch == {<<K1lower>>}

----------------------------------------------------------------------------
(* Python helpers *)

Max(a, b) == IF a >= b THEN a ELSE b

Put(f, k, v) == [x \in (DOMAIN f) \cup {k} |-> IF x = k THEN v ELSE f[x]]

Remove(f, k) == [x \in (DOMAIN f) \ {k} |-> f[x]]

InSeq(x, s) == \E i \in 1..Len(s) : s[i] = x

(* str.upper() on one character of the modelled alphabet *)
UpperChar(c) ==
    CASE c = "a" -> "A"
      [] c = "b" -> "B"
      [] c = "f" -> "F"
      [] OTHER -> c

Upper(s) == [i \in 1..Len(s) |-> UpperChar(s[i])]

(* [A-Z0-9] under re.I *)
IsAlnum(c) == c \in {"A", "B", "F", "a", "b", "f", "0", "1"}

(* the positions of the hyphens of s, and the groups they delimit *)
HyphenAt(s) == {i \in 1..Len(s) : s[i] = "-"}

GroupOk(s, lo, hi) ==
    /\ hi - lo + 1 >= KeyGroupMin
    /\ hi - lo + 1 <= KeyGroupMax
    /\ \A i \in lo..hi : IsAlnum(s[i])

(* ^[A-Z0-9]{4,6}(?:-[A-Z0-9]{4,6}){0,3} matched against the whole of s *)
KeyReCore(s) ==
    LET hy == HyphenAt(s)
        starts == {1} \cup {i + 1 : i \in hy}
        EndOf(lo) == IF \E h \in hy : h >= lo
                     THEN (CHOOSE h \in hy : h >= lo /\ \A g \in hy : g >= lo => h <= g) - 1
                     ELSE Len(s)
    IN  /\ Cardinality(hy) <= KeyExtraGroupsMax
        /\ \A lo \in starts : GroupOk(s, lo, EndOf(lo))

(* KEY_RE.match: "$" also matches just before one trailing newline *)
KeyReMatch(s) ==
    \/ KeyReCore(s)
    \/ /\ Len(s) > 0
       /\ s[Len(s)] = "\n"
       /\ KeyReCore(SubSeq(s, 1, Len(s) - 1))

(* str.strip() on the identifiers of the model *)
Strip(s) ==
    CASE s = " " -> ""
      [] s = "b " -> "b"
      [] s = " zero " -> "zero"
      [] OTHER -> s

UpperWord(s) ==
    CASE s = "zero" -> "ZERO"
      [] OTHER -> s

LowerUnit(u) ==
    CASE u = "H" -> "h"
      [] u = "M" -> "m"
      [] u = "D" -> "d"
      [] u = "MO" -> "mo"
      [] OTHER -> u

UnitOk(unit) ==
    LowerUnit(unit) \in {"m", "minute", "minutes", "h", "hour", "hours",
                         "d", "day", "days", "mo", "mon", "month", "months"}

(* minutes_from_unit; defined where UnitOk, the code raises ValueError elsewhere *)
minutes_from_unit(amount, unit) ==
    LET u == LowerUnit(unit)
    IN  CASE u \in {"m", "minute", "minutes"} -> amount
          [] u \in {"h", "hour", "hours"} -> amount * 60
          [] u \in {"d", "day", "days"} -> amount * 60 * 24
          [] OTHER -> amount * 60 * 24 * 30

----------------------------------------------------------------------------
(* DB layer *)

DEFAULT_DB ==
    [globals |-> [free_mode |-> FALSE, lockdown |-> FALSE, online |-> 0,
                  admin_token |-> DefaultAdminToken],
     users |-> <<>>,
     keys |-> <<>>]

(* the store load_db writes when db.json does not exist *)
InitialDb ==
    IF adminTokenEnv # ""
    THEN [DEFAULT_DB EXCEPT !.globals.admin_token = adminTokenEnv]
    ELSE DEFAULT_DB

(* load_db: the store a handler starts from *)
load_db == IF dbFile = <<>> THEN InitialDb ELSE dbFile[1]

(* save_db: the content of db.json after the write and the replace *)
save_db(db) == <<db>>

(* backup_db: the files <<db.json, db.json.bak>> after the call, from the files before *)
backup_db(file, bak) ==
    IF file # <<>> THEN <<file, file>> ELSE <<save_db(DEFAULT_DB), bak>>

(* the restore that brings back the users of the backup and nothing else *)
restore_backup_UsersOnly(file, bak) ==
    IF bak # <<>>
    THEN [ok |-> TRUE, file |-> save_db([file[1] EXCEPT !.users = bak[1].users])]
    ELSE [ok |-> FALSE, file |-> file]

(* restore_backup: [ok, file] *)
restore_backup(file, bak) ==
    IF bak # <<>> THEN [ok |-> TRUE, file |-> bak] ELSE [ok |-> FALSE, file |-> file]

NewUser(uid) ==
    [id |-> uid, expires_at |-> 0, unlimited |-> FALSE, devices |-> 1,
     hwids |-> <<>>, banned |-> FALSE, last_seen |-> 0]

(* ensure_user: the store with the user present *)
ensure_user(db, uid) ==
    IF uid \in DOMAIN db.users THEN db
    ELSE [db EXCEPT !.users = Put(db.users, uid, NewUser(uid))]

_compute_online(db, t) ==
    Cardinality({uid \in DOMAIN db.users : t - db.users[uid].last_seen <= ONLINE_WINDOW_SEC})

(* the binding without the test for an id that is bound already *)
BindHwid_NoDupTest(hwids, hwid, limit) ==
    IF hwid # "" /\ Len(hwids) < limit
    THEN Append(hwids, hwid)
    ELSE hwids

(* the binding without the test of the device limit *)
BindHwid_NoLimit(hwids, hwid, limit) ==
    IF hwid # "" /\ ~InSeq(hwid, hwids)
    THEN Append(hwids, hwid)
    ELSE hwids

(* the hardware-id binding shared by api_check and api_activate_by_key *)
BindHwid(hwids, hwid, limit) ==
    IF hwid # "" /\ ~InSeq(hwid, hwids) /\ Len(hwids) < limit
    THEN Append(hwids, hwid)
    ELSE hwids

require_admin(db, token) ==
    ~(db.globals.admin_token # "" /\ token # db.globals.admin_token)

----------------------------------------------------------------------------
(* API used by the client *)

NoResp ==
    [ok |-> FALSE, banned |-> FALSE, lockdown |-> FALSE, free_mode |-> FALSE,
     unlimited |-> FALSE, remain |-> 0, online |-> 0]

(* the tail that answers the fresh count and saves the store with the *)
(* count it had                                                       *)
CheckFinish_KeepStored(db, resp, t) ==
    [db |-> db, resp |-> [resp EXCEPT !.online = _compute_online(db, t)]]

(* the tail every path of api_check shares: recompute online, save, answer *)
CheckFinish(db, resp, t) ==
    LET n == _compute_online(db, t)
    IN  [db |-> [db EXCEPT !.globals.online = n], resp |-> [resp EXCEPT !.online = n]]

(* the free-mode branch that grants an id without a record and creates *)
(* none                                                                 *)
CheckFreeMode_NoCreate(db, resp, id, hwid, t) ==
    IF id # "" /\ id \in DOMAIN db.users
    THEN LET u == db.users[id]
             u2 == [u EXCEPT !.hwids = BindHwid(u.hwids, hwid, u.devices),
                             !.last_seen = t]
         IN  CheckFinish([db EXCEPT !.users = Put(db.users, id, u2)],
                         [resp EXCEPT !.ok = TRUE], t)
    ELSE CheckFinish(db, [resp EXCEPT !.ok = TRUE], t)

(* the free-mode branch of api_check *)
CheckFreeMode(db, resp, id, hwid, t) ==
    IF id # ""
    THEN LET d1 == ensure_user(db, id)
             u == d1.users[id]
             u2 == [u EXCEPT !.hwids = BindHwid(u.hwids, hwid, u.devices),
                             !.last_seen = t]
         IN  CheckFinish([d1 EXCEPT !.users = Put(d1.users, id, u2)],
                         [resp EXCEPT !.ok = TRUE], t)
    ELSE CheckFinish(db, [resp EXCEPT !.ok = TRUE], t)

(* api_check from the hardware binding on, without the denial of a user *)
(* whose bound ids exceed the limit                                      *)
CheckEntitled_NoOverLimit(db, resp, id, hwid, t) ==
    LET u == db.users[id]
        u1 == [u EXCEPT !.hwids = BindHwid(u.hwids, hwid, u.devices)]
        u2 == [u1 EXCEPT !.last_seen = t]
        remain == u2.expires_at - t
        r == IF u2.unlimited
             THEN [resp EXCEPT !.ok = TRUE, !.unlimited = TRUE]
             ELSE IF remain > 0
                  THEN [resp EXCEPT !.ok = TRUE, !.remain = remain]
                  ELSE resp
    IN  CheckFinish([db EXCEPT !.users = Put(db.users, id, u2)], r, t)

(* api_check from the hardware binding on, for an existing user that is not banned *)
CheckEntitled(db, resp, id, hwid, t) ==
    LET u == db.users[id]
        dev_limit == u.devices
        u1 == [u EXCEPT !.hwids = BindHwid(u.hwids, hwid, dev_limit)]
        d1 == [db EXCEPT !.users = Put(db.users, id, u1)]
    IN  IF Len(u1.hwids) > dev_limit
        THEN CheckFinish(d1, resp, t)
        ELSE LET u2 == [u1 EXCEPT !.last_seen = t]
                 remain == u2.expires_at - t
                 r == IF u2.unlimited
                      THEN [resp EXCEPT !.ok = TRUE, !.unlimited = TRUE]
                      ELSE IF remain > 0
                           THEN [resp EXCEPT !.ok = TRUE, !.remain = remain]
                           ELSE resp
                 d2 == [d1 EXCEPT !.users = Put(Put(d1.users, id, u2), u2.id, u2)]
             IN  CheckFinish(d2, r, t)

(* api_check with the free-mode rule tried before the banned rule *)
api_check_FreeBeforeBanned(db, id, hwid, t) ==
    LET g == db.globals
        resp == [NoResp EXCEPT !.lockdown = g.lockdown, !.free_mode = g.free_mode]
        known == id # "" /\ id \in DOMAIN db.users
    IN  IF g.lockdown THEN CheckFinish(db, resp, t)
        ELSE IF g.free_mode THEN CheckFreeMode(db, resp, id, hwid, t)
        ELSE IF known /\ db.users[id].banned
             THEN CheckFinish(db, [resp EXCEPT !.banned = TRUE], t)
        ELSE IF ~known THEN CheckFinish(db, resp, t)
        ELSE CheckEntitled(db, resp, id, hwid, t)

(* api_check with the free-mode rule tried before the lockdown rule *)
api_check_FreeModeFirst(db, id, hwid, t) ==
    LET g == db.globals
        resp == [NoResp EXCEPT !.lockdown = g.lockdown, !.free_mode = g.free_mode]
        known == id # "" /\ id \in DOMAIN db.users
    IN  IF g.free_mode /\ ~(known /\ db.users[id].banned)
        THEN CheckFreeMode(db, resp, id, hwid, t)
        ELSE IF g.lockdown THEN CheckFinish(db, resp, t)
        ELSE IF known /\ db.users[id].banned
             THEN CheckFinish(db, [resp EXCEPT !.banned = TRUE], t)
        ELSE IF ~known THEN CheckFinish(db, resp, t)
        ELSE CheckEntitled(db, resp, id, hwid, t)

(* api_check: [db, resp], db the store it saves *)
api_check(db, id, hwid, t) ==
    LET g == db.globals
        resp == [NoResp EXCEPT !.lockdown = g.lockdown, !.free_mode = g.free_mode]
        known == id # "" /\ id \in DOMAIN db.users
    IN  IF g.lockdown THEN CheckFinish(db, resp, t)
        ELSE IF known /\ db.users[id].banned
             THEN CheckFinish(db, [resp EXCEPT !.banned = TRUE], t)
        ELSE IF g.free_mode THEN CheckFreeMode(db, resp, id, hwid, t)
        ELSE IF ~known THEN CheckFinish(db, resp, t)
        ELSE CheckEntitled(db, resp, id, hwid, t)

(* the grant that counts the added time from now, whatever is left *)
ApplyGrant_FromNow(u, unlimited, mins, t) ==
    IF unlimited
    THEN [u EXCEPT !.unlimited = TRUE, !.expires_at = 0]
    ELSE [u EXCEPT !.expires_at = t + mins * SecondsPerMinute, !.unlimited = FALSE]

(* the grant of a key or of a direct activation: expires_at and unlimited *)
ApplyGrant(u, unlimited, mins, t) ==
    IF unlimited
    THEN [u EXCEPT !.unlimited = TRUE, !.expires_at = 0]
    ELSE [u EXCEPT !.expires_at = Max(t, u.expires_at) + mins * SecondsPerMinute,
                   !.unlimited = FALSE]

(* the device limit a redemption gives the user *)
RedeemDevices(u, key) == Max(1, key.devices)

(* whether a key refuses redemption as already used *)
KeyAlreadyUsed(key) == key.single_use /\ key.used_by # <<>> /\ key.used_by[1] # ""

(* api_activate_by_key from ensure_user on, for a key that may be redeemed *)
RedeemGrant(db, id, hwid, code, t) ==
    LET key == db.keys[code]
        d1 == ensure_user(db, id)
        u == d1.users[id]
    IN  IF u.banned THEN [db |-> db, saved |-> FALSE, msg |-> "banned"]
        ELSE LET u1 == [u EXCEPT !.devices = RedeemDevices(u, key)]
                 u2 == [u1 EXCEPT !.hwids = BindHwid(u1.hwids, hwid, u1.devices)]
                 u3 == ApplyGrant(u2, key.unlimited, key.minutes, t)
                 k1 == IF key.single_use THEN [key EXCEPT !.used_by = <<id>>] ELSE key
             IN  [db |-> [d1 EXCEPT !.keys = Put(Put(d1.keys, code, k1), k1.code, k1),
                                    !.users = Put(Put(d1.users, id, u3), u3.id, u3)],
                  saved |-> TRUE, msg |-> "activated"]

(* api_activate_by_key that creates and saves the user before it looks at *)
(* the key                                                                *)
api_activate_by_key_UserFirst(db, id, hwid, code, t) ==
    IF db.globals.lockdown THEN [db |-> db, saved |-> FALSE, msg |-> "lockdown"]
    ELSE IF ~KeyReMatch(code) THEN [db |-> db, saved |-> FALSE, msg |-> "bad key format"]
    ELSE IF code \notin DOMAIN db.keys
         THEN [db |-> ensure_user(db, id), saved |-> TRUE, msg |-> "key not found"]
    ELSE IF KeyAlreadyUsed(db.keys[code])
         THEN [db |-> ensure_user(db, id), saved |-> TRUE, msg |-> "key already used"]
    ELSE RedeemGrant(db, id, hwid, code, t)

(* api_activate_by_key: [db, saved, msg] *)
api_activate_by_key(db, id, hwid, code, t) ==
    IF db.globals.lockdown THEN [db |-> db, saved |-> FALSE, msg |-> "lockdown"]
    ELSE IF ~KeyReMatch(code) THEN [db |-> db, saved |-> FALSE, msg |-> "bad key format"]
    ELSE IF code \notin DOMAIN db.keys THEN [db |-> db, saved |-> FALSE, msg |-> "key not found"]
    ELSE IF KeyAlreadyUsed(db.keys[code])
         THEN [db |-> db, saved |-> FALSE, msg |-> "key already used"]
    ELSE RedeemGrant(db, id, hwid, code, t)

----------------------------------------------------------------------------
(* Admin actions.  Each operator gives [db, saved, msg]: the store the     *)
(* handler ends with, whether it reached its save_db, and its answer:      *)
(* "ok" (the 302 redirect), "forbidden" (403), "not_found" (404),          *)
(* "bad_request" (400), "bad_unit" (the ValueError of minutes_from_unit).  *)

Out(db, saved, msg) == [db |-> db, saved |-> saved, msg |-> msg]

admin_toggle(db, token, what) ==
    IF ~require_admin(db, token) THEN Out(db, FALSE, "forbidden")
    ELSE IF what = "free"
         THEN Out([db EXCEPT !.globals.free_mode = ~db.globals.free_mode], TRUE, "ok")
    ELSE IF what = "lock"
         THEN Out([db EXCEPT !.globals.lockdown = ~db.globals.lockdown], TRUE, "ok")
    ELSE Out(db, TRUE, "ok")

(* the codes admin_create_keys collects from the textarea; rnd is the generated code *)
CreatedCodes(batch, rnd) ==
    IF batch = <<>> THEN <<rnd>>
    ELSE [i \in 1..Len(batch) |-> IF batch[i] = <<>> THEN rnd ELSE Upper(batch[i])]

NewKey(code, minutes, devices, unlimited, single_use) ==
    [code |-> code, minutes |-> minutes, devices |-> Max(1, devices),
     unlimited |-> unlimited, single_use |-> single_use, used_by |-> <<>>]

admin_create_keys(db, token, batch, amount, unit, devices, unlimited, single_use, rnd) ==
    IF ~require_admin(db, token) THEN Out(db, FALSE, "forbidden")
    ELSE IF ~unlimited /\ ~UnitOk(unit) THEN Out(db, FALSE, "bad_unit")
    ELSE LET minutes == IF unlimited THEN 0 ELSE minutes_from_unit(amount, unit)
             created == CreatedCodes(batch, rnd)
             valid == {created[i] : i \in {j \in 1..Len(created) : KeyReMatch(created[j])}}
             keys == [c \in (DOMAIN db.keys) \cup valid |->
                         IF c \in valid
                         THEN NewKey(c, minutes, devices, unlimited, single_use)
                         ELSE db.keys[c]]
         IN  Out([db EXCEPT !.keys = keys], TRUE, "ok")

admin_delete_key(db, token, rawcode) ==
    LET code == Upper(rawcode)
    IN  IF ~require_admin(db, token) THEN Out(db, FALSE, "forbidden")
        ELSE IF code \in DOMAIN db.keys
             THEN Out([db EXCEPT !.keys = Remove(db.keys, code)], TRUE, "ok")
        ELSE Out(db, FALSE, "not_found")

admin_edit_key(db, token, rawcode, amount, unit, devices, unlimited, single_use) ==
    LET code == Upper(rawcode)
    IN  IF ~require_admin(db, token) THEN Out(db, FALSE, "forbidden")
        ELSE IF code \notin DOMAIN db.keys THEN Out(db, FALSE, "not_found")
        ELSE IF ~unlimited /\ ~UnitOk(unit) THEN Out(db, FALSE, "bad_unit")
        ELSE LET key == [db.keys[code] EXCEPT
                            !.minutes = IF unlimited THEN 0 ELSE minutes_from_unit(amount, unit),
                            !.devices = Max(1, devices),
                            !.unlimited = unlimited,
                            !.single_use = single_use]
             IN  Out([db EXCEPT !.keys = Put(db.keys, code, key)], TRUE, "ok")

(* admin_activate_id that saves the user it prepared before the unit fails *)
admin_activate_id_SaveFirst(db, token, id, amount, unit, devices, unlimited, t) ==
    IF ~require_admin(db, token) THEN Out(db, FALSE, "forbidden")
    ELSE LET d1 == ensure_user(db, id)
             u1 == [d1.users[id] EXCEPT !.devices = Max(1, devices)]
             d2 == [d1 EXCEPT !.users = Put(d1.users, id, u1)]
         IN  IF ~unlimited /\ ~UnitOk(unit) THEN Out(d2, TRUE, "bad_unit")
             ELSE LET mins == IF unlimited THEN 0 ELSE minutes_from_unit(amount, unit)
                      u2 == ApplyGrant(u1, unlimited, mins, t)
                  IN  Out([d1 EXCEPT !.users = Put(d1.users, id, u2)], TRUE, "ok")

admin_activate_id(db, token, id, amount, unit, devices, unlimited, t) ==
    IF ~require_admin(db, token) THEN Out(db, FALSE, "forbidden")
    ELSE IF ~unlimited /\ ~UnitOk(unit) THEN Out(db, FALSE, "bad_unit")
    ELSE LET d1 == ensure_user(db, id)
             u1 == [d1.users[id] EXCEPT !.devices = Max(1, devices)]
             mins == IF unlimited THEN 0 ELSE minutes_from_unit(amount, unit)
             u2 == ApplyGrant(u1, unlimited, mins, t)
         IN  Out([d1 EXCEPT !.users = Put(d1.users, id, u2)], TRUE, "ok")

(* the expiry admin_adjust_time writes *)
(* the expiry of a subtraction that is not floored at zero *)
AdjustedExpiry_NoFloor(expires_at, op, mins, t) ==
    LET cur == Max(0, expires_at)
    IN  IF op = "add"
        THEN Max(t, cur) + mins * SecondsPerMinute
        ELSE cur - mins * SecondsPerMinute

AdjustedExpiry(expires_at, op, mins, t) ==
    LET cur == Max(0, expires_at)
    IN  IF op = "add"
        THEN Max(t, cur) + mins * SecondsPerMinute
        ELSE Max(0, cur - mins * SecondsPerMinute)

admin_adjust_time(db, token, id, amount, unit, op, t) ==
    IF ~require_admin(db, token) THEN Out(db, FALSE, "forbidden")
    ELSE LET d1 == ensure_user(db, id)
             u == d1.users[id]
         IN  IF u.unlimited THEN Out(db, FALSE, "ok")
             ELSE IF ~UnitOk(unit) THEN Out(db, FALSE, "bad_unit")
             ELSE LET u1 == [u EXCEPT !.expires_at =
                                AdjustedExpiry(u.expires_at, op, minutes_from_unit(amount, unit), t)]
                  IN  Out([d1 EXCEPT !.users = Put(d1.users, id, u1)], TRUE, "ok")

admin_set_devices(db, token, id, devices) ==
    IF ~require_admin(db, token) THEN Out(db, FALSE, "forbidden")
    ELSE LET d1 == ensure_user(db, id)
             u1 == [d1.users[id] EXCEPT !.devices = Max(1, devices)]
         IN  Out([d1 EXCEPT !.users = Put(d1.users, id, u1)], TRUE, "ok")

(* admin_set_unlimited that leaves expires_at as it is *)
SetUnlimited_KeepExpiry(u, unlimited) == [u EXCEPT !.unlimited = unlimited]

(* the user record admin_set_unlimited writes *)
SetUnlimited(u, unlimited) ==
    IF unlimited
    THEN [u EXCEPT !.unlimited = TRUE, !.expires_at = 0]
    ELSE [u EXCEPT !.unlimited = FALSE]

admin_set_unlimited(db, token, id, unlimited) ==
    IF ~require_admin(db, token) THEN Out(db, FALSE, "forbidden")
    ELSE LET d1 == ensure_user(db, id)
             u1 == SetUnlimited(d1.users[id], unlimited)
         IN  Out([d1 EXCEPT !.users = Put(d1.users, id, u1)], TRUE, "ok")

(* the key table after admin_change_id has rewritten used_by *)
(* admin_change_id without the loop over the keys *)
MigrateKeys_Keep(keys, old_id, new_id) == keys

MigrateKeys(keys, old_id, new_id) ==
    [c \in DOMAIN keys |->
        IF keys[c].used_by = <<old_id>>
        THEN [keys[c] EXCEPT !.used_by = <<new_id>>]
        ELSE keys[c]]

admin_change_id(db, token, raw_old, raw_new) ==
    LET old_id == Strip(raw_old)
        new_id == Strip(raw_new)
    IN  IF ~require_admin(db, token) THEN Out(db, FALSE, "forbidden")
        ELSE IF new_id = "" \/ new_id \in DOMAIN db.users THEN Out(db, FALSE, "bad_request")
        ELSE IF old_id \notin DOMAIN db.users THEN Out(db, FALSE, "not_found")
        ELSE LET u == [db.users[old_id] EXCEPT !.id = new_id]
                 users == Put(Remove(db.users, old_id), new_id, u)
             IN  Out([db EXCEPT !.users = users,
                                !.keys = MigrateKeys(db.keys, old_id, new_id)], TRUE, "ok")

SetBanned(db, token, id, banned) ==
    IF ~require_admin(db, token) THEN Out(db, FALSE, "forbidden")
    ELSE LET d1 == ensure_user(db, id)
             u1 == [d1.users[id] EXCEPT !.banned = banned]
         IN  Out([d1 EXCEPT !.users = Put(d1.users, id, u1)], TRUE, "ok")

admin_ban(db, token, id) == SetBanned(db, token, id, TRUE)

admin_unban(db, token, id) == SetBanned(db, token, id, FALSE)

(* the user table admin_bulk_zero saves *)
ZeroedUsers(users) ==
    [uid \in DOMAIN users |-> [users[uid] EXCEPT !.unlimited = FALSE, !.expires_at = 0]]

(* admin_bulk_zero that copies db.json to the backup after it saved the *)
(* zeroed users                                                        *)
admin_bulk_zero_BackupAfter(file, bak, token, confirm) ==
    LET db == file[1]
    IN  IF ~require_admin(db, token) THEN [file |-> file, bak |-> bak, msg |-> "forbidden"]
        ELSE IF UpperWord(Strip(confirm)) # "ZERO"
             THEN [file |-> file, bak |-> bak, msg |-> "bad_request"]
        ELSE LET z == save_db([db EXCEPT !.users = ZeroedUsers(db.users)])
             IN  [file |-> z, bak |-> backup_db(z, bak)[2], msg |-> "ok"]

(* admin_bulk_zero: [file, bak, msg], the two files after the request; *)
(* file is db.json as load_db left it                                  *)
admin_bulk_zero(file, bak, token, confirm) ==
    LET db == file[1]
    IN  IF ~require_admin(db, token) THEN [file |-> file, bak |-> bak, msg |-> "forbidden"]
        ELSE IF UpperWord(Strip(confirm)) # "ZERO"
             THEN [file |-> file, bak |-> bak, msg |-> "bad_request"]
        ELSE LET b == backup_db(file, bak)
             IN  [file |-> save_db([db EXCEPT !.users = ZeroedUsers(db.users)]),
                  bak |-> b[2], msg |-> "ok"]

(* admin_bulk_undo: [file, msg] *)
admin_bulk_undo(file, bak, token) ==
    IF ~require_admin(file[1], token) THEN [file |-> file, msg |-> "forbidden"]
    ELSE LET r == restore_backup(file, bak)
         IN  [file |-> r.file, msg |-> IF r.ok THEN "ok" ELSE "not_found"]

----------------------------------------------------------------------------
(* The state machine: one action per request handler *)

(* The store directory at the level of the system calls of save_db,       *)
(* load_db, backup_db and restore_backup.  names gives the inode of         *)
(* db.json, db.json.tmp and db.json.bak (0: no such file); inodes gives     *)
(* the content of each inode, a sequence of chunks.  A store value v is     *)
(* written as the chunks <<v, 1>>, <<v, 2>>.                                *)
FsInit == [names |-> [db |-> 0, tmp |-> 0, bak |-> 0], inodes |-> <<>>]

IoThreads == {1, 2}

IoIdle ==
    [prog |-> <<>>, pc |-> "idle", val |-> "", wval |-> "", ret |-> "", src |-> 0,
     fd |-> 0, off |-> 0, dst |-> "", got |-> <<>>, loaded |-> FALSE, reqs |-> 0]

(* The handler threads of the worker pool: a sync handler runs in a thread *)
(* of its own, so two requests overlap between load_db and save_db         *)
Threads == {1, 2}

ThrIdle ==
    [pc |-> "idle", op |-> "none", id |-> "", hwid |-> "", key |-> <<>>, snap |-> <<>>,
     msg |-> "", ok |-> FALSE]

NoReq ==
    [op |-> "none", id |-> "", hwid |-> "", key |-> <<>>, new_id |-> "", what |-> "",
     flag |-> FALSE, mins |-> 0, t |-> 0, msg |-> "", resp |-> NoResp]

Init ==
    /\ dbFile = <<>>
    /\ bakFile = <<>>
    /\ adminTokenEnv \in EnvTokens
    /\ now \in Clock0
    /\ ticks = 0
    /\ steps = 0
    /\ pre = <<>>
    /\ preBak = <<>>
    /\ zeroSnap = <<>>
    /\ last = NoReq
    /\ granted = {}
    /\ fs = FsInit
    /\ iot = [t \in IoThreads |-> IoIdle]
    /\ thr = [t \in Threads |-> ThrIdle]
    /\ base = <<>>

(* db.json once load_db has returned: load_db writes the initial store when *)
(* the file does not exist                                                  *)
LoadedFile == IF dbFile = <<>> THEN save_db(InitialDb) ELSE dbFile

(* db.json after a handler that ended with out *)
FileAfter(out) == IF out.saved THEN save_db(out.db) ELSE LoadedFile

(* the minutes of a duration form, 0 where the unit is refused *)
FormMinutes(f) == IF UnitOk(f.unit) THEN minutes_from_unit(f.amount, f.unit) ELSE 0

(* a request served: the files after it and the history of it *)
Respond(file, bak, snap, rec) ==
    /\ steps' = steps + 1
    /\ pre' = dbFile
    /\ preBak' = bakFile
    /\ dbFile' = file
    /\ bakFile' = bak
    /\ zeroSnap' = snap
    /\ last' = [rec EXCEPT !.t = now]
    /\ granted' = IF rec.op # "check" THEN {}
                  ELSE IF /\ rec.resp.ok
                          /\ ~rec.resp.lockdown
                          /\ ~rec.resp.free_mode
                          /\ rec.hwid # ""
                       THEN granted \cup {<<rec.id, rec.hwid>>}
                       ELSE granted
    /\ UNCHANGED <<adminTokenEnv, now, ticks>>
    /\ UNCHANGED fineVars

Tick(deltas) ==
    /\ ticks < MaxTicks
    /\ \E d \in deltas : now' = now + d
    /\ ticks' = ticks + 1
    /\ UNCHANGED <<dbFile, bakFile, adminTokenEnv, steps, pre, preBak, zeroSnap, last,
                   granted>>
    /\ UNCHANGED fineVars

ApiCheckOf(ids, hwids) ==
    \E id \in ids, hwid \in hwids :
        LET r == api_check(load_db, id, hwid, now)
        IN  Respond(save_db(r.db), bakFile, <<>>,
                    [NoReq EXCEPT !.op = "check", !.id = id, !.hwid = hwid,
                                  !.msg = "ok", !.resp = r.resp])

ApiCheck == ApiCheckOf(Ids, Hwids)

ApiActivateByKey(ids, hwids) ==
    \E id \in ids, hwid \in hwids, code \in KeyInputs :
        LET out == api_activate_by_key(load_db, id, hwid, code, now)
        IN  Respond(FileAfter(out), bakFile, <<>>,
                    [NoReq EXCEPT !.op = "activate", !.id = id, !.hwid = hwid,
                                  !.key = code, !.msg = out.msg])

AdminToggle(tokens) ==
    \E token \in tokens, what \in Whats :
        LET out == admin_toggle(load_db, token, what)
        IN  Respond(FileAfter(out), bakFile, <<>>,
                    [NoReq EXCEPT !.op = "toggle", !.what = what, !.msg = out.msg])

AdminCreateKeys(tokens, batches) ==
    \E token \in tokens, batch \in batches, f \in KeyForms, rnd \in RandomCodes :
        LET out == admin_create_keys(load_db, token, batch, f.amount, f.unit, f.devices,
                                     f.unlimited, f.single_use, rnd)
        IN  Respond(FileAfter(out), bakFile, <<>>,
                    [NoReq EXCEPT !.op = "create_keys", !.msg = out.msg])

AdminDeleteKey(tokens) ==
    \E token \in tokens, code \in KeyInputs :
        LET out == admin_delete_key(load_db, token, code)
        IN  Respond(FileAfter(out), bakFile, <<>>,
                    [NoReq EXCEPT !.op = "delete_key", !.key = code, !.msg = out.msg])

AdminEditKey(tokens) ==
    \E token \in tokens, code \in EditKeyInputs, f \in KeyForms :
        LET out == admin_edit_key(load_db, token, code, f.amount, f.unit, f.devices,
                                  f.unlimited, f.single_use)
        IN  Respond(FileAfter(out), bakFile, <<>>,
                    [NoReq EXCEPT !.op = "edit_key", !.key = code, !.msg = out.msg])

AdminActivateIdWith(tokens, ids, forms) ==
    \E token \in tokens, id \in ids, f \in forms :
        LET out == admin_activate_id(load_db, token, id, f.amount, f.unit, f.devices,
                                     f.unlimited, now)
        IN  Respond(FileAfter(out), bakFile, <<>>,
                    [NoReq EXCEPT !.op = "activate_id", !.id = id, !.flag = f.unlimited,
                                  !.mins = FormMinutes(f), !.msg = out.msg])

AdminActivateIdOf(tokens, ids) == AdminActivateIdWith(tokens, ids, UserForms)

AdminActivateId(tokens) == AdminActivateIdOf(tokens, AdminIds)

AdminAdjustTime(tokens) ==
    \E token \in tokens, id \in AdminIds, f \in Durations, op \in {"add", "sub"} :
        LET out == admin_adjust_time(load_db, token, id, f.amount, f.unit, op, now)
        IN  Respond(FileAfter(out), bakFile, <<>>,
                    [NoReq EXCEPT !.op = "adjust_time", !.id = id, !.what = op,
                                  !.flag = out.saved, !.mins = FormMinutes(f),
                                  !.msg = out.msg])

AdminSetDevicesOf(tokens, ids) ==
    \E token \in tokens, id \in ids, devices \in DeviceInputs :
        LET out == admin_set_devices(load_db, token, id, devices)
        IN  Respond(FileAfter(out), bakFile, <<>>,
                    [NoReq EXCEPT !.op = "set_devices", !.id = id, !.msg = out.msg])

AdminSetDevices(tokens) == AdminSetDevicesOf(tokens, AdminIds)

AdminSetUnlimited(tokens) ==
    \E token \in tokens, id \in AdminIds, unlimited \in BOOLEAN :
        LET out == admin_set_unlimited(load_db, token, id, unlimited)
        IN  Respond(FileAfter(out), bakFile, <<>>,
                    [NoReq EXCEPT !.op = "set_unlimited", !.id = id, !.flag = unlimited,
                                  !.msg = out.msg])

AdminChangeId(tokens) ==
    \E token \in tokens, old_id \in RawOldIds, new_id \in RawNewIds :
        LET out == admin_change_id(load_db, token, old_id, new_id)
        IN  Respond(FileAfter(out), bakFile, <<>>,
                    [NoReq EXCEPT !.op = "change_id", !.id = old_id, !.new_id = new_id,
                                  !.msg = out.msg])

AdminBanOf(tokens, ids) ==
    \E token \in tokens, id \in ids :
        LET out == admin_ban(load_db, token, id)
        IN  Respond(FileAfter(out), bakFile, <<>>,
                    [NoReq EXCEPT !.op = "ban", !.id = id, !.msg = out.msg])

AdminBan(tokens) == AdminBanOf(tokens, AdminIds)

AdminUnban(tokens) ==
    \E token \in tokens, id \in AdminIds :
        LET out == admin_unban(load_db, token, id)
        IN  Respond(FileAfter(out), bakFile, <<>>,
                    [NoReq EXCEPT !.op = "unban", !.id = id, !.msg = out.msg])

AdminBulkZero(tokens) ==
    \E token \in tokens, confirm \in Confirms :
        LET r == admin_bulk_zero(LoadedFile, bakFile, token, confirm)
        IN  Respond(r.file, r.bak, IF r.msg = "ok" THEN LoadedFile ELSE <<>>,
                    [NoReq EXCEPT !.op = "bulk_zero", !.what = confirm, !.msg = r.msg])

AdminBulkUndo(tokens) ==
    \E token \in tokens :
        LET r == admin_bulk_undo(LoadedFile, bakFile, token)
        IN  Respond(r.file, bakFile, zeroSnap,
                    [NoReq EXCEPT !.op = "bulk_undo", !.msg = r.msg])

(* whether another request is served, in the specifications of MaxSteps and *)
(* in those of MaxDeepSteps                                                 *)
More == steps < MaxSteps

MoreDeep == steps < MaxDeepSteps

(* Every handler, any order, with every enumerated input *)
Next ==
    \/ Tick(TickDeltas)
    \/ More /\ ApiCheck
    \/ More /\ ApiActivateByKey(Ids, Hwids)
    \/ More /\ AdminToggle(Tokens)
    \/ More /\ AdminCreateKeys(Tokens, Batches)
    \/ More /\ AdminDeleteKey(Tokens)
    \/ More /\ AdminEditKey(Tokens)
    \/ More /\ AdminActivateId(Tokens)
    \/ More /\ AdminAdjustTime(Tokens)
    \/ More /\ AdminSetDevices(Tokens)
    \/ More /\ AdminSetUnlimited(Tokens)
    \/ More /\ AdminChangeId(Tokens)
    \/ More /\ AdminBan(Tokens)
    \/ More /\ AdminUnban(Tokens)
    \/ More /\ AdminBulkZero(Tokens)
    \/ More /\ AdminBulkUndo(Tokens)

Spec == Init /\ [][Next]_vars

(* The specifications below serve the handlers that read or write what one *)
(* group of claims is about; in them the operator presents the configured  *)
(* token, where the claim is not about the token.                          *)

(* the access decision and the operations that set what it reads *)
NextAccess ==
    \/ MoreDeep /\ ApiCheck
    \/ MoreDeep /\ AdminToggle(OperatorTokens)
    \/ MoreDeep /\ AdminActivateId(OperatorTokens)
    \/ MoreDeep /\ AdminBan(OperatorTokens)

SpecAccess == Init /\ [][NextAccess]_vars

(* key redemption, the keys and the flags it reads, and the check that binds too *)
NextRedeem ==
    \/ More /\ ApiActivateByKey(Ids, Hwids)
    \/ More /\ AdminCreateKeys(OperatorTokens, Batches)
    \/ More /\ ApiCheck
    \/ More /\ AdminToggle(OperatorTokens)
    \/ More /\ AdminBan(OperatorTokens)

SpecRedeem == Init /\ [][NextRedeem]_vars

(* the device limit, the operations that write it and the binding of        *)
(* hardware ids by the check                                               *)
NextDevices ==
    \/ MoreDeep /\ ApiCheck
    \/ MoreDeep /\ AdminSetDevices(OperatorTokens)
    \/ MoreDeep /\ AdminToggle(OperatorTokens)
    \/ MoreDeep /\ AdminActivateId(OperatorTokens)
    \/ MoreDeep /\ AdminCreateKeys(OperatorTokens, OneCodeBatch)
    \/ MoreDeep /\ ApiActivateByKey(AdminIds, OneHwid)

SpecDevices == Init /\ [][NextDevices]_vars

(* the operations that write expires_at and unlimited *)
NextEntitle ==
    \/ More /\ ApiActivateByKey(Ids, NoHwid)
    \/ More /\ AdminCreateKeys(OperatorTokens, Batches)
    \/ More /\ AdminActivateId(OperatorTokens)
    \/ More /\ AdminAdjustTime(OperatorTokens)
    \/ More /\ AdminSetUnlimited(OperatorTokens)
    \/ More /\ AdminBulkZero(OperatorTokens)
    \/ More /\ AdminBulkUndo(OperatorTokens)

SpecEntitle == Init /\ [][NextEntitle]_vars

(* the operations that add time to expires_at, and the clock *)
NextAccrual ==
    \/ Tick(LongDelta)
    \/ More /\ ApiActivateByKey(AdminIds, NoHwid)
    \/ More /\ AdminCreateKeys(OperatorTokens, OneCodeBatch)
    \/ More /\ AdminActivateId(OperatorTokens)
    \/ More /\ AdminAdjustTime(OperatorTokens)

SpecAccrual == Init /\ [][NextAccrual]_vars

(* Renaming: users come from redemptions and bans, keys from create_keys *)
NextRename ==
    \/ More /\ AdminCreateKeys(OperatorTokens, Batches)
    \/ More /\ ApiActivateByKey(Ids, NoHwid)
    \/ More /\ AdminChangeId(OperatorTokens)
    \/ More /\ AdminBan(OperatorTokens)

SpecRename == Init /\ [][NextRename]_vars

(* Bulk zero and undo over users with timed and unlimited grants *)
NextBulk ==
    \/ MoreDeep /\ AdminActivateId(OperatorTokens)
    \/ MoreDeep /\ AdminSetUnlimited(OperatorTokens)
    \/ MoreDeep /\ AdminBan(OperatorTokens)
    \/ MoreDeep /\ AdminBulkZero(OperatorTokens)
    \/ MoreDeep /\ AdminBulkUndo(OperatorTokens)

SpecBulk == Init /\ [][NextBulk]_vars

(* whether another request is served in the specification of the admin *)
(* handlers                                                            *)
MoreAdmin == steps < MaxAdminSteps

(* Every admin handler, with the operator's token and with a wrong one *)
NextAdmin ==
    \/ MoreAdmin /\ AdminToggle(Tokens)
    \/ MoreAdmin /\ AdminCreateKeys(Tokens, Batches)
    \/ MoreAdmin /\ AdminDeleteKey(Tokens)
    \/ MoreAdmin /\ AdminEditKey(Tokens)
    \/ MoreAdmin /\ AdminActivateId(Tokens)
    \/ MoreAdmin /\ AdminAdjustTime(Tokens)
    \/ MoreAdmin /\ AdminSetDevices(Tokens)
    \/ MoreAdmin /\ AdminSetUnlimited(Tokens)
    \/ MoreAdmin /\ AdminChangeId(Tokens)
    \/ MoreAdmin /\ AdminBan(Tokens)
    \/ MoreAdmin /\ AdminUnban(Tokens)
    \/ MoreAdmin /\ AdminBulkZero(Tokens)
    \/ MoreAdmin /\ AdminBulkUndo(Tokens)

SpecAdmin == Init /\ [][NextAdmin]_vars

----------------------------------------------------------------------------
(* The claims *)

(* the store the last request loaded, and the store db.json holds now *)
PreDb == IF pre = <<>> THEN InitialDb ELSE pre[1]

CurDb == IF dbFile = <<>> THEN InitialDb ELSE dbFile[1]

Served(op) == last.op = op

(* C1: lockdown dominates.  A check served while the store has lockdown set *)
(* answers ok = false, whatever the id, the hardware id, the user's record  *)
(* and free_mode.                                                           *)
C1_LockdownDenies ==
    (Served("check") /\ PreDb.globals.lockdown) => ~last.resp.ok

(* C1 witness: a check under lockdown with free mode on, for a user that is *)
(* unlimited and not banned, was denied.                                    *)
C1_Witness ==
    /\ Served("check")
    /\ PreDb.globals.lockdown
    /\ PreDb.globals.free_mode
    /\ last.id \in DOMAIN PreDb.users
    /\ PreDb.users[last.id].unlimited
    /\ ~PreDb.users[last.id].banned
    /\ ~last.resp.ok

(* C2: a single-use key redeemed twice.  Once a single-use key has been     *)
(* redeemed (its used_by is set, whatever the redeeming id), a further      *)
(* redemption of that code answers "key already used" and leaves the store  *)
(* as the first redemption left it.  Stated for a store without lockdown,   *)
(* where the code is one the key table holds.                               *)
C2_SecondRedeemFails ==
    ( /\ Served("activate")
      /\ ~PreDb.globals.lockdown
      /\ last.key \in DOMAIN PreDb.keys
      /\ PreDb.keys[last.key].single_use
      /\ PreDb.keys[last.key].used_by # <<>> )
    => (last.msg = "key already used" /\ CurDb = PreDb)

PreExpiry(id) == IF id \in DOMAIN PreDb.users THEN PreDb.users[id].expires_at ELSE 0

(* C4: in every persisted store a user with unlimited set has expires_at 0 *)
C4_UnlimitedHasNoExpiry ==
    \A id \in DOMAIN CurDb.users :
        CurDb.users[id].unlimited => CurDb.users[id].expires_at = 0

(* C4 witness: a user that had time left was made unlimited by the last *)
(* request and is stored with expires_at 0.                             *)
C4_Witness ==
    /\ last.op \in {"set_unlimited", "activate_id", "activate"}
    /\ last.id \in DOMAIN PreDb.users
    /\ PreDb.users[last.id].expires_at > 0
    /\ CurDb.users[last.id].unlimited
    /\ CurDb.users[last.id].expires_at = 0

C5_ExpiredCase ==
    /\ Served("activate")
    /\ last.msg = "activated"
    /\ PreDb.keys[last.key].minutes = 60
    /\ PreExpiry(last.id) > 0
    /\ PreExpiry(last.id) < last.t
    /\ CurDb.users[last.id].expires_at = last.t + 3600

NoDuplicates(s) == \A i, j \in 1..Len(s) : s[i] = s[j] => i = j

(* C6: binding is idempotent.  A check or a redemption that presents a     *)
(* hardware id the user has bound already leaves the user's hwids as they  *)
(* were, and no user of any persisted store has a hardware id bound twice. *)
C6_BindIdempotent ==
    /\ ( /\ last.op \in {"check", "activate"}
         /\ last.id \in DOMAIN PreDb.users
         /\ InSeq(last.hwid, PreDb.users[last.id].hwids) )
       => ( /\ last.id \in DOMAIN CurDb.users
            /\ CurDb.users[last.id].hwids = PreDb.users[last.id].hwids )
    /\ \A id \in DOMAIN CurDb.users : NoDuplicates(CurDb.users[id].hwids)

(* C6 witness: a successful redemption presented a hardware id that was    *)
(* bound already, with room left under the device limit.                   *)
C6_Witness ==
    /\ Served("activate")
    /\ last.msg = "activated"
    /\ last.id \in DOMAIN PreDb.users
    /\ InSeq(last.hwid, PreDb.users[last.id].hwids)
    /\ Len(CurDb.users[last.id].hwids) < CurDb.users[last.id].devices

(* C7: after a successful rename of old to new (the ids as the handler     *)
(* strips them) the user table has no entry for old, the entry for new     *)
(* carries old's record under the new id, every other user is as before,   *)
(* every key used by old is used by new, and every other key is as before. *)
C7_RenamePropagates ==
    (Served("change_id") /\ last.msg = "ok") =>
        LET old == Strip(last.id)
            new == Strip(last.new_id)
        IN  /\ old \in DOMAIN PreDb.users
            /\ old \notin DOMAIN CurDb.users
            /\ new \in DOMAIN CurDb.users
            /\ CurDb.users[new] = [PreDb.users[old] EXCEPT !.id = new]
            /\ DOMAIN CurDb.users = (DOMAIN PreDb.users \ {old}) \cup {new}
            /\ \A id \in DOMAIN PreDb.users \ {old} : CurDb.users[id] = PreDb.users[id]
            /\ DOMAIN CurDb.keys = DOMAIN PreDb.keys
            /\ \A c \in DOMAIN PreDb.keys :
                  IF PreDb.keys[c].used_by = <<old>>
                  THEN CurDb.keys[c] = [PreDb.keys[c] EXCEPT !.used_by = <<new>>]
                  ELSE CurDb.keys[c] = PreDb.keys[c]

(* C7 witness: a rename succeeded in a store with a key the old id had *)
(* redeemed and a key it had not.                                      *)
C7_Witness ==
    /\ Served("change_id")
    /\ last.msg = "ok"
    /\ \E c \in DOMAIN PreDb.keys :
          /\ PreDb.keys[c].used_by = <<Strip(last.id)>>
          /\ CurDb.keys[c].used_by = <<Strip(last.new_id)>>
    /\ \E c \in DOMAIN PreDb.keys : PreDb.keys[c].used_by # <<Strip(last.id)>>

(* C8: a bulk_zero with the confirmation, directly followed by a bulk_undo, *)
(* gives every user the expires_at and unlimited it had before the          *)
(* bulk_zero.                                                               *)
C8_ZeroUndoRestores ==
    (Served("bulk_undo") /\ last.msg = "ok" /\ zeroSnap # <<>>) =>
        \A id \in DOMAIN zeroSnap[1].users :
            /\ id \in DOMAIN CurDb.users
            /\ CurDb.users[id].expires_at = zeroSnap[1].users[id].expires_at
            /\ CurDb.users[id].unlimited = zeroSnap[1].users[id].unlimited

(* C8 witness: the undo followed a bulk_zero that had taken an unlimited *)
(* grant from one user and time from another.                            *)
C8_Witness ==
    /\ Served("bulk_undo")
    /\ last.msg = "ok"
    /\ zeroSnap # <<>>
    /\ \E id \in DOMAIN PreDb.users :
          /\ ~PreDb.users[id].unlimited
          /\ CurDb.users[id].unlimited
    /\ \E id \in DOMAIN PreDb.users :
          /\ PreDb.users[id].expires_at = 0
          /\ CurDb.users[id].expires_at > 0

AdminOps ==
    {"toggle", "create_keys", "delete_key", "edit_key", "activate_id", "adjust_time",
     "set_devices", "set_unlimited", "change_id", "ban", "unban", "bulk_zero", "bulk_undo"}

Rejections == {"forbidden", "not_found", "bad_request", "bad_unit"}

(* C9: an admin request that is rejected (wrong token, unknown key code,    *)
(* invalid unit, rename to an empty or taken id or of an unknown id,        *)
(* bulk_zero without the confirmation) leaves the store and the backup as   *)
(* they were before the request.                                            *)
C9_RejectedAdminNoChange ==
    (last.op \in AdminOps /\ last.msg \in Rejections) =>
        /\ CurDb = PreDb
        /\ bakFile = preBak

(* C9 witness: with a backup on disk, a direct activation of an id without *)
(* a record was rejected for its unit; no record was stored.               *)
C9_Witness ==
    /\ Served("activate_id")
    /\ last.msg = "bad_unit"
    /\ preBak # <<>>
    /\ last.id \notin DOMAIN CurDb.users

(* C10: a redemption that fails (lockdown, bad key format, key not found, *)
(* key already used, banned user) leaves the store as it was: no user is  *)
(* created, no device limit, binding or used_by is touched.               *)
C10_FailedRedeemNoChange ==
    (Served("activate") /\ last.msg # "activated") =>
        /\ last.msg \in {"lockdown", "bad key format", "key not found",
                         "key already used", "banned"}
        /\ CurDb = PreDb
        /\ bakFile = preBak

(* C10 witness: an id without a record presented a key that was used; no *)
(* record was created and the key is still used by its first redeemer.   *)
C10_Witness ==
    /\ Served("activate")
    /\ last.msg = "key already used"
    /\ last.id \notin DOMAIN CurDb.users
    /\ CurDb.keys[last.key].used_by # <<last.id>>

----------------------------------------------------------------------------
(* The store calls step by step.  A request is the sequence of store calls *)
(* its handler makes; the threads of the worker pool interleave at every   *)
(* system call.                                                            *)

(* the store calls of a handler that only reads, of one that mutates, of *)
(* admin_bulk_zero and of admin_bulk_undo                                *)
Programs ==
    {<<"load">>, <<"load", "save">>, <<"load", "backup", "save">>, <<"load", "restore">>}

(* the stores the handlers save: one value for each thread, apart from the *)
(* initial store of load_db and DEFAULT_DB of backup_db                    *)
SaveValues == {"s1", "s2"}

SaveValueOf(t) == IF t = 1 THEN "s1" ELSE "s2"

RECURSIVE SumReqs(_)
SumReqs(ts) ==
    IF ts = {} THEN 0
    ELSE LET t == CHOOSE x \in ts : TRUE IN iot[t].reqs + SumReqs(ts \ {t})

(* the requests that have arrived, those in progress included *)
Arrived == SumReqs(IoThreads) + Cardinality({t \in IoThreads : iot[t].pc # "idle"})

StoreValues == SaveValues \cup {"initial", "default"}

(* the chunks json.dump writes for a store *)
ChunkNos == {1, 2}

Image(v) == <<<<v, 1>>, <<v, 2>>>>

Hole == <<"hole", 0>>

(* a write of one chunk at offset off of a file; a write beyond the end *)
(* leaves a hole                                                        *)
RECURSIVE PadTo(_, _)
PadTo(content, off) ==
    IF Len(content) >= off THEN content ELSE PadTo(Append(content, Hole), off)

WriteAt(content, off, chunk) ==
    IF off < Len(content)
    THEN [content EXCEPT ![off + 1] = chunk]
    ELSE Append(PadTo(content, off), chunk)

(* open(name, "w"): the file system after it and the inode opened; an *)
(* existing file is truncated in place, a missing one is created      *)
OpenW(f, name) ==
    IF f.names[name] # 0
    THEN [fs |-> [f EXCEPT !.inodes[f.names[name]] = <<>>], fd |-> f.names[name]]
    ELSE [fs |-> [f EXCEPT !.inodes = Append(f.inodes, <<>>),
                           !.names[name] = Len(f.inodes) + 1],
          fd |-> Len(f.inodes) + 1]

(* the thread as it starts the next store call of its request, or ends it *)
StartCall(th, prog) ==
    IF prog = <<>>
    THEN [IoIdle EXCEPT !.reqs = th.reqs + 1]
    ELSE [th EXCEPT !.prog = prog,
                    !.pc = CASE Head(prog) = "load" -> "load_exists"
                             [] Head(prog) = "save" -> "save_open"
                             [] Head(prog) = "backup" -> "backup_exists"
                             [] OTHER -> "restore_exists",
                    !.wval = th.val, !.ret = "next"]

NextCall(th) == StartCall(th, Tail(th.prog))

(* the thread after an exception ended its request *)
Raised(th) == [IoIdle EXCEPT !.reqs = th.reqs + 1]

IoStep(t, th, f) ==
    /\ iot' = [iot EXCEPT ![t] = th]
    /\ fs' = f
    /\ UNCHANGED <<coarseVars, thr, base>>

(* a request arrives *)
IoBegin(t) ==
    /\ iot[t].pc = "idle"
    /\ Arrived < MaxIoReqs
    /\ \E prog \in Programs :
          IoStep(t, StartCall([iot[t] EXCEPT !.val = SaveValueOf(t)], prog), fs)

(* load_db: os.path.exists(DB_FILE); initial is the store written when *)
(* the file is missing                                                 *)
LoadExistsOf(t, initial) ==
    /\ iot[t].pc = "load_exists"
    /\ IF fs.names.db = 0
       THEN IoStep(t, [iot[t] EXCEPT !.pc = "save_open", !.wval = initial,
                                     !.ret = "read"], fs)
       ELSE IoStep(t, [iot[t] EXCEPT !.pc = "read"], fs)

LoadExists(t) == LoadExistsOf(t, "initial")

(* load_db: open and json.load *)
LoadRead(t) ==
    /\ iot[t].pc = "read"
    /\ IF fs.names.db = 0
       THEN IoStep(t, Raised(iot[t]), fs)
       ELSE IoStep(t, NextCall([iot[t] EXCEPT !.got = fs.inodes[fs.names.db],
                                              !.loaded = TRUE]), fs)

(* save_db: open(tmp, "w") *)
SaveOpen(t) ==
    /\ iot[t].pc = "save_open"
    /\ LET o == OpenW(fs, "tmp")
       IN  IoStep(t, [iot[t] EXCEPT !.pc = "save_write", !.fd = o.fd, !.off = 0], o.fs)

(* save_db: json.dump, one chunk *)
SaveWrite(t) ==
    /\ iot[t].pc = "save_write"
    /\ LET th == iot[t]
           c == WriteAt(fs.inodes[th.fd], th.off, <<th.wval, th.off + 1>>)
       IN  IoStep(t, [th EXCEPT !.off = th.off + 1,
                                !.pc = IF th.off + 1 \in ChunkNos /\ th.off + 2 \notin ChunkNos
                                       THEN "save_replace" ELSE "save_write"],
                  [fs EXCEPT !.inodes[th.fd] = c])

(* save_db: os.replace(tmp, DB_FILE) *)
SaveReplace(t) ==
    /\ iot[t].pc = "save_replace"
    /\ IF fs.names.tmp = 0
       THEN IoStep(t, Raised(iot[t]), fs)
       ELSE IoStep(t, IF iot[t].ret = "read" THEN [iot[t] EXCEPT !.pc = "read"]
                      ELSE NextCall(iot[t]),
                   [fs EXCEPT !.names.db = fs.names.tmp, !.names.tmp = 0])

(* backup_db: os.path.exists(DB_FILE), then copy2 or save_db(DEFAULT_DB) *)
BackupExists(t) ==
    /\ iot[t].pc = "backup_exists"
    /\ IF fs.names.db # 0
       THEN IoStep(t, [iot[t] EXCEPT !.pc = "copy_open", !.src = fs.names.db,
                                     !.dst = "bak"], fs)
       ELSE IoStep(t, [iot[t] EXCEPT !.pc = "save_open", !.wval = "default",
                                     !.ret = "next"], fs)

(* restore_backup: os.path.exists(bak), then copy2 or return False *)
RestoreExists(t) ==
    /\ iot[t].pc = "restore_exists"
    /\ IF fs.names.bak # 0
       THEN IoStep(t, [iot[t] EXCEPT !.pc = "copy_open", !.src = fs.names.bak,
                                     !.dst = "db"], fs)
       ELSE IoStep(t, NextCall(iot[t]), fs)

(* shutil.copy2: the destination is opened for writing *)
CopyOpen(t) ==
    /\ iot[t].pc = "copy_open"
    /\ LET o == OpenW(fs, iot[t].dst)
       IN  IoStep(t, [iot[t] EXCEPT !.pc = "copy", !.fd = o.fd, !.off = 0], o.fs)

(* shutil.copy2: one chunk is copied, or the end of the source is met *)
CopyChunk(t) ==
    /\ iot[t].pc = "copy"
    /\ LET th == iot[t]
       IN  IF th.off < Len(fs.inodes[th.src])
           THEN IoStep(t, [th EXCEPT !.off = th.off + 1],
                       [fs EXCEPT !.inodes[th.fd] =
                            WriteAt(fs.inodes[th.fd], th.off, fs.inodes[th.src][th.off + 1])])
           ELSE IoStep(t, NextCall(th), fs)

NextStoreIO ==
    \/ \E t \in IoThreads : IoBegin(t)
    \/ \E t \in IoThreads : LoadExists(t)
    \/ \E t \in IoThreads : LoadRead(t)
    \/ \E t \in IoThreads : SaveOpen(t)
    \/ \E t \in IoThreads : SaveWrite(t)
    \/ \E t \in IoThreads : SaveReplace(t)
    \/ \E t \in IoThreads : BackupExists(t)
    \/ \E t \in IoThreads : RestoreExists(t)
    \/ \E t \in IoThreads : CopyOpen(t)
    \/ \E t \in IoThreads : CopyChunk(t)

SpecStoreIO == Init /\ [][NextStoreIO]_vars

(* what a load returns is the image of one store *)
Complete(content) == \E v \in StoreValues : content = Image(v)

(* C11: whatever the interleaving of the store calls of concurrent         *)
(* requests, what a load_db has read is the complete image of one store,   *)
(* never a part of one or a mix of two.                                    *)
C11_LoadSeesCompleteStore ==
    \A t \in IoThreads : iot[t].loaded => Complete(iot[t].got)

----------------------------------------------------------------------------
(* Handlers that overlap.  A handler is two steps here: its load_db, and   *)
(* then its decisions on the copy it loaded together with its save_db.     *)
(* Each thread serves one request; the store is prepared before the first  *)
(* of them arrives.                                                        *)

ConcHwids == {"h1"}

(* what a handler does with the store it loaded: [db, saved, msg, ok] *)
HandlerOut(req, db) ==
    CASE req.op = "check" ->
            LET r == api_check(db, req.id, req.hwid, now)
            IN  [db |-> r.db, saved |-> TRUE, msg |-> "ok", ok |-> r.resp.ok]
      [] req.op = "ban" ->
            LET o == admin_ban(db, adminTokenEnv, req.id)
            IN  [db |-> o.db, saved |-> o.saved, msg |-> o.msg, ok |-> o.msg = "ok"]
      [] OTHER ->
            LET o == api_activate_by_key(db, req.id, req.hwid, req.key, now)
            IN  [db |-> o.db, saved |-> o.saved, msg |-> o.msg, ok |-> o.msg = "activated"]

(* the store after the request was served alone on store db *)
Apply(req, db) == LET o == HandlerOut(req, db) IN IF o.saved THEN o.db ELSE db

(* no handler thread has a request *)
Quiet == \A t \in Threads : thr[t].pc = "idle"

(* every handler thread has answered its request *)
AllDone == \A t \in Threads : thr[t].pc = "done"

(* the load_db of a handler *)
ConcLoad(t, req) ==
    /\ thr[t].pc = "idle"
    /\ thr' = [thr EXCEPT ![t] = [req EXCEPT !.pc = "loaded", !.snap = <<load_db>>]]
    /\ dbFile' = LoadedFile
    /\ base' = IF Quiet THEN LoadedFile ELSE base
    /\ UNCHANGED <<bakFile, adminTokenEnv, now, ticks, steps, pre, preBak, zeroSnap, last,
                   granted, fs, iot>>

ConcBeginCheck(t) ==
    \E id \in AdminIds, hwid \in ConcHwids :
        ConcLoad(t, [ThrIdle EXCEPT !.op = "check", !.id = id, !.hwid = hwid])

ConcBeginBan(t) ==
    \E id \in AdminIds : ConcLoad(t, [ThrIdle EXCEPT !.op = "ban", !.id = id])

ConcBeginRedeem(t) ==
    \E id \in AdminIds, code \in KeyInputs :
        ConcLoad(t, [ThrIdle EXCEPT !.op = "activate", !.id = id, !.key = code])

(* the rest of the handler, up to its save_db and its answer *)
ConcFinish(t) ==
    /\ thr[t].pc = "loaded"
    /\ LET o == HandlerOut(thr[t], thr[t].snap[1])
       IN  /\ dbFile' = IF o.saved THEN save_db(o.db) ELSE dbFile
           /\ thr' = [thr EXCEPT ![t].pc = "done", ![t].msg = o.msg, ![t].ok = o.ok]
    /\ UNCHANGED <<bakFile, adminTokenEnv, now, ticks, steps, pre, preBak, zeroSnap, last,
                   granted, fs, iot, base>>

NextConcurrent ==
    \/ Quiet /\ More /\ AdminCreateKeys(OperatorTokens, OneCodeBatch)
    \/ Quiet /\ More /\ AdminActivateId(OperatorTokens)
    \/ \E t \in Threads : ConcBeginCheck(t)
    \/ \E t \in Threads : ConcBeginBan(t)
    \/ \E t \in Threads : ConcBeginRedeem(t)
    \/ \E t \in Threads : ConcFinish(t)

SpecConcurrent == Init /\ [][NextConcurrent]_vars

(* C12: when the overlapping requests have all been answered, the store on *)
(* disk is the store some serial order of them gives from the store the    *)
(* first of them loaded: no request's saved effect is lost.                *)
C12_Serializable ==
    AllDone =>
        \E t1, t2 \in Threads :
            /\ t1 # t2
            /\ dbFile[1] = Apply(thr[t2], Apply(thr[t1], base[1]))

(* C13: of the overlapping redemptions of one single-use key by different *)
(* ids, at most one is answered ok.                                       *)
C13_OneRedeemer ==
    \A t1, t2 \in Threads :
        ( /\ t1 # t2
          /\ thr[t1].pc = "done" /\ thr[t2].pc = "done"
          /\ thr[t1].op = "activate" /\ thr[t2].op = "activate"
          /\ thr[t1].key = thr[t2].key
          /\ thr[t1].id # thr[t2].id
          /\ thr[t1].key \in DOMAIN base[1].keys
          /\ base[1].keys[thr[t1].key].single_use )
        => ~(thr[t1].ok /\ thr[t2].ok)

(* a check of a user that has a record and is banned *)
BannedChecked ==
    /\ Served("check")
    /\ last.id \in DOMAIN PreDb.users
    /\ PreDb.users[last.id].banned

(* the check left the user's last_seen and hwids as they were *)
CheckLeftUser ==
    /\ last.id \in DOMAIN CurDb.users
    /\ CurDb.users[last.id].last_seen = PreDb.users[last.id].last_seen
    /\ CurDb.users[last.id].hwids = PreDb.users[last.id].hwids

(* C14 as claimed: a check of a banned user answers ok=false and          *)
(* banned=true, whatever the globals and the entitlement, and changes     *)
(* neither the user's last_seen nor its hwids.                            *)
C14_BannedDeniedAndFlagged ==
    BannedChecked => (~last.resp.ok /\ last.resp.banned /\ CheckLeftUser)

(* C14 amended: a check of a banned user answers ok=false and changes     *)
(* neither last_seen nor hwids, whatever free_mode, unlimited, expires_at *)
(* and lockdown; the answer has banned=true exactly when lockdown is off  *)
(* (under lockdown the lockdown rule answers first, with banned=false).   *)
C14_BannedDenied ==
    BannedChecked =>
        /\ ~last.resp.ok
        /\ CheckLeftUser
        /\ last.resp.banned = ~PreDb.globals.lockdown

(* C14 witness: free mode is on, lockdown is off, the banned user is       *)
(* unlimited and presents a hardware id that is not bound: denied, flagged *)
(* banned, nothing bound.                                                  *)
C14_Witness ==
    /\ BannedChecked
    /\ PreDb.globals.free_mode
    /\ ~PreDb.globals.lockdown
    /\ PreDb.users[last.id].unlimited
    /\ last.hwid # ""
    /\ ~InSeq(last.hwid, PreDb.users[last.id].hwids)
    /\ ~last.resp.ok
    /\ last.resp.banned
    /\ CurDb.users[last.id].hwids = PreDb.users[last.id].hwids

(* The access decision for one user, followed through more requests: the *)
(* user's device limit is filled, exceeded and lowered                   *)
OneId == {"a"}

TwoHwids == {"h1", "h2"}

MoreDecision == steps < MaxDecisionSteps

NextDecision ==
    \/ MoreDecision /\ ApiCheckOf(AdminIds, TwoHwids)
    \/ MoreDecision /\ AdminSetDevicesOf(OperatorTokens, OneId)
    \/ MoreDecision /\ AdminBanOf(OperatorTokens, OneId)
    \/ MoreDecision /\ AdminToggle(OperatorTokens)
    \/ MoreDecision /\ AdminActivateIdOf(OperatorTokens, OneId)
    \/ Tick(LongDelta)

SpecDecision == Init /\ [][NextDecision]_vars

(* the record of the checked id in the store the check loaded, the fresh *)
(* record of ensure_user for an id without one                           *)
PreUser(id) == IF id \in DOMAIN PreDb.users THEN PreDb.users[id] ELSE NewUser(id)

(* C15: with lockdown off and free mode on, a check with a non-empty id   *)
(* that is not a banned user answers ok=true, whether the id is unknown,  *)
(* expired or has its device limit filled or exceeded; the id has a       *)
(* record afterwards, stamped now, and the presented hardware id is added *)
(* exactly when it is non-empty, not bound and the bound count is below   *)
(* the device limit.                                                      *)
C15_FreeModeGrants ==
    ( /\ Served("check")
      /\ ~PreDb.globals.lockdown
      /\ PreDb.globals.free_mode
      /\ last.id # ""
      /\ ~PreUser(last.id).banned )
    => LET u == PreUser(last.id)
           bind == /\ last.hwid # ""
                   /\ ~InSeq(last.hwid, u.hwids)
                   /\ Len(u.hwids) < u.devices
       IN  /\ last.resp.ok
           /\ last.id \in DOMAIN CurDb.users
           /\ CurDb.users[last.id] =
                 [u EXCEPT !.hwids = IF bind THEN Append(u.hwids, last.hwid) ELSE u.hwids,
                           !.last_seen = last.t]

(* C15 witness: in free mode an id without a record was granted and got   *)
(* its record with the hardware id bound.                                 *)
C15_Witness ==
    /\ Served("check")
    /\ PreDb.globals.free_mode
    /\ ~PreDb.globals.lockdown
    /\ last.id # ""
    /\ last.id \notin DOMAIN PreDb.users
    /\ last.hwid # ""
    /\ last.resp.ok
    /\ last.id \in DOMAIN CurDb.users
    /\ CurDb.users[last.id].hwids = <<last.hwid>>

(* C15 second case (reached too): in free mode an expired user whose device *)
(* limit is exceeded presented an unbound hardware id: granted, not bound.  *)
C15_ExceededCase ==
    /\ Served("check")
    /\ PreDb.globals.free_mode
    /\ ~PreDb.globals.lockdown
    /\ last.id \in DOMAIN PreDb.users
    /\ ~PreDb.users[last.id].unlimited
    /\ PreDb.users[last.id].expires_at <= last.t
    /\ Len(PreDb.users[last.id].hwids) > PreDb.users[last.id].devices
    /\ last.hwid # ""
    /\ last.resp.ok
    /\ CurDb.users[last.id].hwids = PreDb.users[last.id].hwids

(* a check that the lockdown rule and the free-mode rule let pass *)
PlainCheck ==
    /\ Served("check")
    /\ ~PreDb.globals.lockdown
    /\ ~PreDb.globals.free_mode

(* a plain check of a user that has a record and is not banned *)
UserChecked ==
    /\ PlainCheck
    /\ last.id \in DOMAIN PreDb.users
    /\ ~PreDb.users[last.id].banned

(* whether the user, as the check stored it, is within its device limit and *)
(* has an entitlement at the time of the check                              *)
Entitled(u, t) ==
    /\ Len(u.hwids) <= u.devices
    /\ (u.unlimited \/ u.expires_at - t > 0)

(* C16 as claimed: a plain check of an existing user that is not banned    *)
(* answers ok exactly when, after the bind attempt, the bound ids are      *)
(* within the limit and the user is unlimited or has time left; it reports *)
(* unlimited=true and remain 0 for an unlimited user and remain =          *)
(* expires_at - now for any other; an unknown id is denied.                *)
C16_VerdictAsClaimed ==
    /\ UserChecked =>
         LET u == CurDb.users[last.id]
         IN  /\ last.resp.ok <=> Entitled(u, last.t)
             /\ u.unlimited => (last.resp.unlimited /\ last.resp.remain = 0)
             /\ ~u.unlimited => last.resp.remain = u.expires_at - last.t
    /\ (PlainCheck /\ last.id \notin DOMAIN PreDb.users) => ~last.resp.ok

(* C16 amended: for a non-empty id, the same equivalence for ok; the      *)
(* verdict has unlimited=true only when it grants an unlimited user, and  *)
(* remain = expires_at - now only when it grants a user by time; every    *)
(* denial (expired, over the device limit, unknown id) has unlimited=false *)
(* and remain 0.  An unknown id is denied and gets no record.             *)
C16_Verdict ==
    /\ (UserChecked /\ last.id # "") =>
         LET u == CurDb.users[last.id]
             p == PreDb.users[last.id]
             bind == /\ last.hwid # ""
                     /\ ~InSeq(last.hwid, p.hwids)
                     /\ Len(p.hwids) < p.devices
         IN  /\ u.hwids = IF bind THEN Append(p.hwids, last.hwid) ELSE p.hwids
             /\ last.resp.ok <=> Entitled(u, last.t)
             /\ last.resp.unlimited <=> (last.resp.ok /\ u.unlimited)
             /\ last.resp.remain =
                   IF last.resp.ok /\ ~u.unlimited THEN u.expires_at - last.t ELSE 0
    /\ (PlainCheck /\ last.id \notin DOMAIN PreDb.users) =>
         /\ ~last.resp.ok
         /\ ~last.resp.unlimited
         /\ last.resp.remain = 0
         /\ last.id \notin DOMAIN CurDb.users

(* C16 witness: an unlimited user whose bound ids exceed the limit was *)
(* denied, and the verdict does not say unlimited.                     *)
C16_Witness ==
    /\ UserChecked
    /\ CurDb.users[last.id].unlimited
    /\ Len(CurDb.users[last.id].hwids) > CurDb.users[last.id].devices
    /\ ~last.resp.ok
    /\ ~last.resp.unlimited

(* C16 further cases (reached too): a grant by time that bound the        *)
(* presented hardware id, and a denial after the time ran out.            *)
C16_TimedCase ==
    /\ UserChecked
    /\ last.resp.ok
    /\ last.resp.remain = CurDb.users[last.id].expires_at - last.t
    /\ last.resp.remain > 0
    /\ ~InSeq(last.hwid, PreDb.users[last.id].hwids)
    /\ InSeq(last.hwid, CurDb.users[last.id].hwids)

C16_ExpiredCase ==
    /\ UserChecked
    /\ ~last.resp.ok
    /\ CurDb.users[last.id].expires_at > 0
    /\ CurDb.users[last.id].expires_at < last.t
    /\ last.resp.remain = 0

(* the users of a store seen within 300 seconds of t *)
SeenWithin(db, t) == {uid \in DOMAIN db.users : t - db.users[uid].last_seen <= 300}

(* C17: whatever path a check takes, the store it saves has globals.online *)
(* equal to the number of its users whose last_seen is within 300 seconds  *)
(* of now, and the verdict's online is that number.                        *)
C17_OnlineCountFresh ==
    Served("check") =>
        /\ CurDb.globals.online = Cardinality(SeenWithin(CurDb, last.t))
        /\ last.resp.online = CurDb.globals.online

(* C17 witness: a denial (banned user) lowered the stored count, because *)
(* the users counted before were last seen more than 300 seconds ago.    *)
C17_Witness ==
    /\ Served("check")
    /\ last.resp.banned
    /\ PreDb.globals.online > 0
    /\ CurDb.globals.online = 0
    /\ last.resp.online = 0
    /\ DOMAIN CurDb.users # {}

(* C17 further case (reached too): two users are counted *)
C17_TwoOnline ==
    /\ Served("check")
    /\ last.resp.online = 2
    /\ CurDb.globals.online = 2

(* C18: a redemption that presents the code of a stored key in any letter *)
(* case has the result of the redemption that presents the upper-case     *)
(* code: the same answer and the same store.                              *)
C18_RedeemAnyCase ==
    ( /\ Served("activate")
      /\ Upper(last.key) \in DOMAIN PreDb.keys )
    => LET o == api_activate_by_key(PreDb, last.id, last.hwid, Upper(last.key), last.t)
       IN  /\ last.msg = o.msg
           /\ CurDb = IF o.saved THEN o.db ELSE PreDb

(* the hardware ids that plain checks have granted to a user while no *)
(* other request came in between                                      *)
GrantedHwids(id) == {h \in Hwids : <<id, h>> \in granted}

(* C19: with lockdown and free mode off, while nothing but checks is      *)
(* served, the distinct non-empty hardware ids for which the checks of a  *)
(* user answered ok are at most devices of the user; a check from a       *)
(* hardware id that is not bound, with the limit reached, is denied.      *)
C19_DeviceCap ==
    /\ \A id \in DOMAIN CurDb.users :
          Cardinality(GrantedHwids(id)) <= CurDb.users[id].devices
    /\ ( /\ UserChecked
         /\ last.hwid # ""
         /\ ~InSeq(last.hwid, PreDb.users[last.id].hwids)
         /\ Len(PreDb.users[last.id].hwids) >= PreDb.users[last.id].devices )
       => ~last.resp.ok

(* C20: with lockdown off, a check with the empty id is denied, free mode *)
(* on or off, and creates no user record.                                *)
C20_EmptyIdDenied ==
    ( /\ Served("check")
      /\ ~PreDb.globals.lockdown
      /\ last.id = "" )
    => /\ ~last.resp.ok
       /\ DOMAIN CurDb.users = DOMAIN PreDb.users

(* C21: in every persisted store every key has devices >= 1, minutes >= 0 *)
(* and minutes = 0 when it is unlimited, whatever integer amount and      *)
(* devices create_keys and edit_key were given.                           *)
C21_KeyFieldsInRange ==
    \A c \in DOMAIN CurDb.keys :
        /\ CurDb.keys[c].devices >= 1
        /\ CurDb.keys[c].minutes >= 0
        /\ CurDb.keys[c].unlimited => CurDb.keys[c].minutes = 0

(* Keys that are created, redeemed and edited *)
NextKeyEdit ==
    \/ MoreDeep /\ AdminCreateKeys(OperatorTokens, OneCodeBatch)
    \/ MoreDeep /\ ApiActivateByKey(AdminIds, NoHwid)
    \/ MoreDeep /\ AdminEditKey(OperatorTokens)

SpecKeyEdit == Init /\ [][NextKeyEdit]_vars

(* C22: once a key has been redeemed as a single-use key (its used_by is   *)
(* set; used_by is written for single-use keys only), an edit_key of the   *)
(* code leaves used_by as it is and every later redemption of the code is  *)
(* answered "key already used".  Stated for a redeemer with a non-empty    *)
(* id and a store without lockdown.                                        *)
C22_RedeemedStaysUsed ==
    /\ ( /\ Served("edit_key")
         /\ last.msg = "ok" )
       => CurDb.keys[Upper(last.key)].used_by = PreDb.keys[Upper(last.key)].used_by
    /\ ( /\ Served("activate")
         /\ ~PreDb.globals.lockdown
         /\ last.key \in DOMAIN PreDb.keys
         /\ PreDb.keys[last.key].used_by # <<>>
         /\ PreDb.keys[last.key].used_by # <<"">> )
       => last.msg = "key already used"

(* Time that is granted and adjusted *)
NextAdjust ==
    \/ MoreDeep /\ AdminActivateIdWith(OperatorTokens, AdminIds, AdjustForms)
    \/ MoreDeep /\ AdminAdjustTime(OperatorTokens)
    \/ Tick(LongDelta)

SpecAdjust == Init /\ [][NextAdjust]_vars

(* C23: adjust_time with op sub of a duration of m minutes (m >= 0) on a   *)
(* user that is not unlimited stores expires_at = max(0, expires_at -      *)
(* 60 * m), which is never negative; adjust_time, add or sub, on an        *)
(* unlimited user leaves the store as it was.                              *)
C23_SubFloorsAtZero ==
    /\ ( /\ Served("adjust_time")
         /\ last.msg = "ok"
         /\ last.what = "sub"
         /\ last.mins >= 0
         /\ ~PreUser(last.id).unlimited )
       => /\ CurDb.users[last.id].expires_at = Max(0, PreExpiry(last.id) - 60 * last.mins)
          /\ CurDb.users[last.id].expires_at >= 0
    /\ ( /\ Served("adjust_time")
         /\ PreUser(last.id).unlimited )
       => CurDb = PreDb

(* C23 witness: a subtraction larger than what was left set the expiry to 0 *)
C23_Witness ==
    /\ Served("adjust_time")
    /\ last.msg = "ok"
    /\ last.what = "sub"
    /\ PreExpiry(last.id) > 0
    /\ PreExpiry(last.id) - 60 * last.mins < 0
    /\ CurDb.users[last.id].expires_at = 0

(* C23 further cases (reached too): a subtraction that leaves time, one   *)
(* from an expiry below zero, and an adjust_time of an unlimited user     *)
C23_PartCase ==
    /\ Served("adjust_time")
    /\ last.msg = "ok"
    /\ last.what = "sub"
    /\ last.mins > 0
    /\ CurDb.users[last.id].expires_at = PreExpiry(last.id) - 60 * last.mins
    /\ CurDb.users[last.id].expires_at > 0

C23_NegativeCase ==
    /\ Served("adjust_time")
    /\ last.msg = "ok"
    /\ last.what = "sub"
    /\ PreExpiry(last.id) < 0
    /\ CurDb.users[last.id].expires_at = 0

C23_UnlimitedCase ==
    /\ Served("adjust_time")
    /\ last.msg = "ok"
    /\ last.id \in DOMAIN PreDb.users
    /\ PreDb.users[last.id].unlimited
    /\ CurDb = PreDb

(* The store calls on their own: load_db, save_db, backup_db and           *)
(* restore_backup applied to the files as they are, db.json absent included *)
SavedStores ==
    {[InitialDb EXCEPT !.globals.free_mode = f, !.globals.lockdown = l] : f, l \in BOOLEAN}

StoreLoad ==
    Respond(LoadedFile, bakFile, zeroSnap, [NoReq EXCEPT !.op = "load_db"])

StoreSave ==
    \E db \in SavedStores :
        Respond(save_db(db), bakFile, zeroSnap, [NoReq EXCEPT !.op = "save_db"])

StoreBackup ==
    LET r == backup_db(dbFile, bakFile)
    IN  Respond(r[1], r[2], zeroSnap, [NoReq EXCEPT !.op = "backup_db"])

StoreRestore ==
    LET r == restore_backup(dbFile, bakFile)
    IN  Respond(r.file, bakFile, zeroSnap,
                [NoReq EXCEPT !.op = "restore_backup", !.flag = r.ok])

NextStore ==
    \/ MoreDeep /\ StoreLoad
    \/ MoreDeep /\ StoreSave
    \/ MoreDeep /\ StoreBackup
    \/ MoreDeep /\ StoreRestore

SpecStore == Init /\ [][NextStore]_vars

(* C24: when backup_db has returned, db.json.bak exists and holds what     *)
(* db.json holds, and where db.json did not exist before the call db.json  *)
(* is the default store with the ADMIN_TOKEN override; restore_backup      *)
(* returns true when the backup exists, and returns false and leaves both  *)
(* files as they were when it does not.                                    *)
C24_BackupThenRestore ==
    /\ Served("backup_db")
       => /\ bakFile # <<>>
          /\ bakFile = dbFile
          /\ pre = <<>> => dbFile = save_db(InitialDb)
    /\ ( Served("restore_backup") /\ preBak # <<>> ) => last.flag
    /\ ( Served("restore_backup") /\ preBak = <<>> )
       => /\ ~last.flag
          /\ dbFile = pre
          /\ bakFile = preBak

(* C24, the parts that hold: backup_db of an existing db.json, and         *)
(* restore_backup with and without a backup                                *)
C24_BackupOfExisting ==
    ( Served("backup_db") /\ pre # <<>> )
    => /\ bakFile = pre
       /\ dbFile = pre

C24_RestoreResult ==
    Served("restore_backup")
    => /\ last.flag = (preBak # <<>>)
       /\ dbFile = IF preBak # <<>> THEN preBak ELSE pre
       /\ bakFile = preBak

C24_BackupOfExistingCase ==
    /\ Served("backup_db")
    /\ pre # <<>>
    /\ preBak # pre

C24_RestoreNoBackupCase ==
    /\ Served("restore_backup")
    /\ preBak = <<>>
    /\ pre # <<>>
    /\ ~last.flag

(* Keys and users that refer to each other: the requests one at a time *)
NextKeysUsers ==
    \/ MoreDeep /\ AdminCreateKeys(OperatorTokens, OneCodeBatch)
    \/ MoreDeep /\ ApiActivateByKey(Ids, NoHwid)
    \/ MoreDeep /\ AdminChangeId(OperatorTokens)
    \/ MoreDeep /\ AdminEditKey(OperatorTokens)
    \/ MoreDeep /\ AdminDeleteKey(OperatorTokens)
    \/ MoreDeep /\ AdminBulkZero(OperatorTokens)
    \/ MoreDeep /\ AdminBulkUndo(OperatorTokens)

SpecKeysUsers == Init /\ [][NextKeysUsers]_vars

(* every used_by that is set names a user of the store, and every user is *)
(* stored under its own id                                                *)
RefIntegrity(db) ==
    /\ \A c \in DOMAIN db.keys :
          db.keys[c].used_by # <<>> => db.keys[c].used_by[1] \in DOMAIN db.users
    /\ \A k \in DOMAIN db.users : db.users[k].id = k

(* C25, the requests served one at a time: the store on disk and the      *)
(* backup keep the references whole                                       *)
C25_SerialIntegrity ==
    /\ RefIntegrity(CurDb)
    /\ bakFile # <<>> => RefIntegrity(bakFile[1])

C25_RenamedCase ==
    /\ Served("change_id")
    /\ last.msg = "ok"
    /\ \E c \in DOMAIN CurDb.keys : CurDb.keys[c].used_by = <<Strip(last.new_id)>>

C25_UndoneCase ==
    /\ Served("bulk_undo")
    /\ last.msg = "ok"
    /\ \E c \in DOMAIN PreDb.keys :
          /\ PreDb.keys[c].used_by # <<>>
          /\ c \in DOMAIN CurDb.keys
          /\ CurDb.keys[c].used_by # PreDb.keys[c].used_by

(* Keys and users that refer to each other: the requests of two threads  *)
(* at the level of the system calls of load_db and save_db.  Here the      *)
(* files hold the stores themselves: chunk 1 of the text of a store is its *)
(* globals and users, chunk 2 its keys.                                    *)
KeyReq(op, id, new_id) == [op |-> op, id |-> id, new_id |-> new_id]

KeyRequests ==
    {KeyReq("create_keys", "", ""), KeyReq("activate", "a", ""),
     KeyReq("change_id", "a", "b"), KeyReq("toggle", "", "")}

(* the requests of a thread: the second client sends toggles only *)
KeyRequestsOf(t) == IF t = 1 THEN KeyRequests ELSE {KeyReq("toggle", "", "")}

(* what the handler of req does with the store it loaded *)
KeyHandlerOut(req, db) ==
    CASE req.op = "create_keys" ->
            admin_create_keys(db, adminTokenEnv, <<K1>>, 1, "m", 1, FALSE, TRUE, K2)
      [] req.op = "activate" -> api_activate_by_key(db, req.id, "", K1, now)
      [] req.op = "change_id" -> admin_change_id(db, adminTokenEnv, req.id, req.new_id)
      [] OTHER -> admin_toggle(db, adminTokenEnv, "free")

(* the text read is that of a JSON object: a first and a second chunk *)
Parses(content) ==
    /\ Len(content) = 2
    /\ content[1][2] = 1
    /\ content[2][2] = 2

(* the text read is the one text of one store *)
Whole(content) == Parses(content) /\ content[1][1] = content[2][1]

(* json.load of a text that parses *)
Parsed(content) ==
    [globals |-> content[1][1].globals,
     users |-> content[1][1].users,
     keys |-> content[2][1].keys]

(* a request arrives *)
KeyBegin(t) ==
    /\ iot[t].pc = "idle"
    /\ Arrived < MaxKeyReqs
    /\ \E req \in KeyRequestsOf(t) :
          IoStep(t, [iot[t] EXCEPT !.val = req, !.prog = <<"load", "save">>,
                                   !.pc = "load_exists", !.ret = "next"], fs)

(* load_db: os.path.exists(DB_FILE) *)
KeyLoadExists(t) == LoadExistsOf(t, InitialDb)

(* load_db: open and json.load, and the handler up to its save_db.  The    *)
(* text of two stores may or may not be the text of a JSON object.         *)
KeyLoadRead(t) ==
    /\ iot[t].pc = "read"
    /\ \/ /\ \/ fs.names.db = 0
             \/ ~Whole(fs.inodes[fs.names.db])
          /\ IoStep(t, Raised(iot[t]), fs)
       \/ /\ fs.names.db # 0
          /\ Parses(fs.inodes[fs.names.db])
          /\ LET content == fs.inodes[fs.names.db]
                 out == KeyHandlerOut(iot[t].val, Parsed(content))
             IN  IF out.saved
                 THEN IoStep(t, [iot[t] EXCEPT !.pc = "save_open", !.wval = out.db,
                                               !.prog = <<"save">>, !.ret = "next",
                                               !.got = content, !.loaded = TRUE], fs)
                 ELSE IoStep(t, Raised(iot[t]), fs)

NextKeysUsersIO ==
    \/ \E t \in IoThreads : KeyBegin(t)
    \/ \E t \in IoThreads : KeyLoadExists(t)
    \/ \E t \in IoThreads : KeyLoadRead(t)
    \/ \E t \in IoThreads : SaveOpen(t)
    \/ \E t \in IoThreads : SaveWrite(t)
    \/ \E t \in IoThreads : SaveReplace(t)

SpecKeysUsersIO == Init /\ [][NextKeysUsersIO]_vars

NextUndo ==
    \/ MoreDeep /\ AdminBulkZero(OperatorTokens)
    \/ MoreDeep /\ AdminBulkUndo(OperatorTokens)
    \/ MoreDeep /\ AdminToggle(OperatorTokens)
    \/ MoreDeep /\ AdminCreateKeys(OperatorTokens, OneCodeBatch)
    \/ MoreDeep /\ ApiActivateByKey(AdminIds, NoHwid)
    \/ MoreDeep /\ AdminBan(OperatorTokens)

SpecUndo == Init /\ [][NextUndo]_vars

(* the store a handler loaded from the files before the last request *)
PreFile == IF pre = <<>> THEN save_db(InitialDb) ELSE pre

(* C26: a bulk_zero that succeeds leaves in db.json.bak the whole store it *)
(* loaded, no other request changes db.json.bak, and a bulk_undo that      *)
(* succeeds makes db.json equal to db.json.bak, users, keys and globals,   *)
(* and leaves db.json.bak as it was; so a second bulk_undo gives the same  *)
(* store.                                                                  *)
C26_UndoRestoresSnapshot ==
    /\ ( Served("bulk_zero") /\ last.msg = "ok" ) => bakFile = PreFile
    /\ ~( Served("bulk_zero") /\ last.msg = "ok" ) => bakFile = preBak
    /\ ( Served("bulk_undo") /\ last.msg = "ok" )
       => /\ preBak # <<>>
          /\ dbFile = preBak
          /\ bakFile = preBak

(* C26 witness: an undo of a store whose users and keys had changed since *)
(* the snapshot                                                           *)
C26_Witness ==
    /\ Served("bulk_undo")
    /\ last.msg = "ok"
    /\ pre # <<>>
    /\ pre[1].users # preBak[1].users
    /\ pre[1].keys # preBak[1].keys
    /\ dbFile = preBak

(* C26 further cases (reached too): an undo that reverts a flag toggled   *)
(* after the snapshot, and an undo after an undo                          *)
C26_FlagCase ==
    /\ Served("bulk_undo")
    /\ last.msg = "ok"
    /\ pre # <<>>
    /\ pre[1].globals # preBak[1].globals
    /\ pre[1].users = preBak[1].users
    /\ dbFile = preBak

C26_RepeatedCase ==
    /\ Served("bulk_undo")
    /\ last.msg = "ok"
    /\ pre = preBak
    /\ dbFile = pre
    /\ \E id \in DOMAIN CurDb.users : CurDb.users[id].banned

====
